---- MODULE Spec2Model ----
(***************************************************************************)
(* A model of the triangular-arbitrage engine of src/TriArbDemo.py: the    *)
(* class TriangularArbitrage (metadata index, triangle builder, price      *)
(* table, rate resolver, scanner with bounded history).                    *)
(*                                                                         *)
(* Python values are modelled as follows.                                  *)
(*  - symbol_info (a dict, iterated in insertion order) is a sequence of   *)
(*    entries [symbol, base, quote]; assigning an existing key keeps its   *)
(*    position, a new key is appended.                                     *)
(*  - asset_to_symbols (defaultdict(set)) is a function from assets to     *)
(*    sets of symbols; the iteration order of a set is not specified by    *)
(*    the language, so build_triangles draws one order per set.            *)
(*  - prices (a dict) is a function whose domain is the priced symbols.    *)
(*  - floats are exact rationals [num, den] with den > 0 in lowest terms;  *)
(*    the tick values used are 0, +-1, 2, 4: every quotient and product the *)
(*    engine computes is a dyadic number a float64 holds exactly.          *)
(*  - a raised exception is recorded in exc by the call that raised it.    *)
(* run_arbitrage, the loop that drives the engine from the ticker stream,  *)
(* is modelled by its position pc and its locals.                          *)
(***************************************************************************)
EXTENDS Integers, Sequences, FiniteSets, TLC

VARIABLES
    prices,            \* self.prices
    symbol_info,       \* self.symbol_info
    asset_to_symbols,  \* self.asset_to_symbols
    triangles,         \* self.triangles
    best_trade,        \* self.best_trade
    history,           \* self.history
    log,               \* every best trade committed so far, newest first
    op,                \* the method called most recently, or "__init__"
    exc,               \* exception raised by the most recent call, or "none"
    loads,             \* number of fetch_symbol_info calls made
    builds,            \* number of build_triangles calls made
    ticks,             \* number of update_price calls made
    scans,             \* number of find_arbitrage calls made
    pc,                \* run_arbitrage: the statement it is at
    ws,                \* run_arbitrage: the stream handle ws
    tickers,           \* run_arbitrage: the tickers of the message still to apply
    recvs              \* run_arbitrage: number of ws.recv() calls made

vars == <<prices, symbol_info, asset_to_symbols, triangles, best_trade,
          history, log, op, exc, loads, builds, ticks, scans,
          pc, ws, tickers, recvs>>

\* The engine object with the call bookkeeping, and the locals of run_arbitrage.
engine == <<prices, symbol_info, asset_to_symbols, triangles, best_trade,
            history, log, op, exc, loads, builds, ticks, scans>>

loop == <<pc, ws, tickers, recvs>>

----------------------------------------------------------------------------
(* Bounds of the model.                                                    *)

MaxLoads == 2
MaxFeedLen == 3
MaxTicks == 4
MaxScans == 2
HistTicks == 4
HistExtra == 2
HistIdle == 1
FixtureTicks == 1
MaxBuilds == 2
MaxRecvs == 3
MaxBatch == 2

(* Program constant: deque(maxlen=50).                                     *)
maxlen == 50

----------------------------------------------------------------------------
(* The venue: assets, listed symbols, metadata records.                    *)

Assets == {"BTC", "ETH", "USDT"}

Listing ==
    [BTCUSDT |-> [base |-> "BTC", quote |-> "USDT"],
     ETHBTC  |-> [base |-> "ETH", quote |-> "BTC"],
     ETHUSDT |-> [base |-> "ETH", quote |-> "USDT"],
     BTCETH  |-> [base |-> "BTC", quote |-> "ETH"],
     BTCBTC  |-> [base |-> "BTC", quote |-> "BTC"]]

Names == DOMAIN Listing

\* One element of data["symbols"].
MetaRecord(name, status) ==
    [symbol |-> name, baseAsset |-> Listing[name].base,
     quoteAsset |-> Listing[name].quote, status |-> status]

\* The injective sequences over S of length at most n.
InjSeqs(S, n) ==
    UNION {{s \in [1..k -> S] : \A i, j \in 1..k : i # j => s[i] # s[j]} :
           k \in 0..n}

\* The orders in which a set can be iterated.
Perms(S) ==
    {s \in [1..Cardinality(S) -> S] : \A i, j \in 1..Cardinality(S) : i # j => s[i] # s[j]}

Range(s) == {s[i] : i \in 1..Len(s)}

\* The listed names in the order of the venue's own listing.
NameOrder == <<"BTCBTC", "BTCETH", "BTCUSDT", "ETHBTC", "ETHUSDT">>

\* The records of the names outside `used`, all with the given status.
RECURSIVE RestRecords(_, _, _)
RestRecords(used, status, i) ==
    IF i > Len(NameOrder) THEN <<>>
    ELSE IF NameOrder[i] \in used THEN RestRecords(used, status, i + 1)
    ELSE <<MetaRecord(NameOrder[i], status)>> \o RestRecords(used, status, i + 1)

\* A metadata response: the symbols of listing s as tradeable, in that order,
\* followed by the venue's other symbols in a non-tradeable status.
FeedOf(s) ==
    [i \in 1..Len(s) |-> MetaRecord(s[i], "TRADING")] \o RestRecords(Range(s), "BREAK", 1)

\* The metadata responses the venue can send.
Feeds == {FeedOf(s) : s \in InjSeqs(Names, MaxFeedLen)}

\* The tradeable symbols of test_fetch_symbol_info's response, in its order.
TestListing == <<"BTCUSDT", "ETHBTC", "ETHUSDT">>

\* The responses used for a streaming session: the listing of
\* test_fetch_symbol_info, and two listings with two triangles each.
SessionFeeds ==
    {FeedOf(TestListing),
     FeedOf(<<"BTCUSDT", "ETHUSDT", "ETHBTC", "BTCETH">>),
     FeedOf(<<"ETHBTC", "BTCETH", "BTCUSDT", "ETHUSDT">>)}

----------------------------------------------------------------------------
(* Python dict and None.                                                   *)

None == [none |-> TRUE]

Keys(d) == {d[i].symbol : i \in 1..Len(d)}

Get(d, k) == d[CHOOSE i \in 1..Len(d) : d[i].symbol = k]

\* d[k] = {"base": b, "quote": q}
Put(d, k, b, q) ==
    IF k \in Keys(d)
    THEN [i \in 1..Len(d) |->
            IF d[i].symbol = k THEN [symbol |-> k, base |-> b, quote |-> q] ELSE d[i]]
    ELSE Append(d, [symbol |-> k, base |-> b, quote |-> q])

----------------------------------------------------------------------------
(* fetch_symbol_info                                                       *)

\* Faulty variant of Skip: the status filter is left out.
Skip_Never(s) == FALSE

\* if s["status"] != "TRADING": continue
Skip(s) == s.status # "TRADING"

\* The loop over data["symbols"], from record i on; idx is
\* [symbol_info, asset_to_symbols].
RECURSIVE FetchLoop(_, _, _)
FetchLoop(idx, feed, i) ==
    IF i > Len(feed) THEN idx
    ELSE LET s == feed[i] IN
         IF Skip(s) THEN FetchLoop(idx, feed, i + 1)
         ELSE FetchLoop(
                [symbol_info |-> Put(idx.symbol_info, s.symbol, s.baseAsset, s.quoteAsset),
                 asset_to_symbols |->
                    [a \in Assets |->
                        IF a = s.baseAsset \/ a = s.quoteAsset
                        THEN idx.asset_to_symbols[a] \cup {s.symbol}
                        ELSE idx.asset_to_symbols[a]]],
                feed, i + 1)

fetch_symbol_info(feed) ==
    LET idx == FetchLoop([symbol_info |-> symbol_info,
                          asset_to_symbols |-> asset_to_symbols], feed, 1)
    IN /\ symbol_info' = idx.symbol_info
       /\ asset_to_symbols' = idx.asset_to_symbols
       /\ op' = "fetch_symbol_info"
       /\ exc' = "none"
       /\ loads' = loads + 1
       /\ UNCHANGED <<prices, triangles, best_trade, history, log, builds, ticks, scans>>

----------------------------------------------------------------------------
(* build_triangles                                                         *)

\* Faulty variant of SortedKey: the key is the triple itself, not sorted.
SortedKey_Unsorted(t) == t

\* tuple(sorted(triangle)): two triples have equal keys exactly when they hold
\* the same symbols the same number of times.
SortedKey(t) ==
    [n \in {t[1], t[2], t[3]} |-> Cardinality({i \in 1..3 : t[i] = n})]

\* Faulty variant of Mid: the quote of sym2 is taken whichever side touches
\* quote1.
Mid_QuoteOnly(base2, quote2, quote1) == quote2

\* mid = quote2 if base2 == quote1 else base2 if quote2 == quote1 else None
Mid(base2, quote2, quote1) ==
    IF base2 = quote1 THEN quote2 ELSE IF quote2 = quote1 THEN base2 ELSE "None"

\* Faulty variant of Closes: sym3 only has to touch mid.
Closes_TouchesMid(base3, quote3, base1, mid) == base3 = mid \/ quote3 = mid

\* if (base3 == base1 and quote3 == mid) or (quote3 == base1 and base3 == mid)
Closes(base3, quote3, base1, mid) ==
    \/ base3 = base1 /\ quote3 = mid
    \/ quote3 = base1 /\ base3 = mid

\* if key not in checked: append, add; st is [triangles, checked].
Store(st, triangle) ==
    IF SortedKey(triangle) \in st.checked THEN st
    ELSE [triangles |-> Append(st.triangles, triangle),
          checked |-> st.checked \cup {SortedKey(triangle)}]

\* for sym3 in self.asset_to_symbols.get(mid, []), from position k on.
RECURSIVE BuildLoop3(_, _, _, _, _, _, _)
BuildLoop3(st, info, sym1, sym2, mid, seq3, k) ==
    IF k > Len(seq3) THEN st
    ELSE LET sym3 == seq3[k]
             e3 == Get(info, sym3)
             st2 == IF Closes(e3.base, e3.quote, Get(info, sym1).base, mid)
                    THEN Store(st, <<sym1, sym2, sym3>>)
                    ELSE st
         IN BuildLoop3(st2, info, sym1, sym2, mid, seq3, k + 1)

\* for sym2 in self.asset_to_symbols.get(quote1, []), from position j on.
RECURSIVE BuildLoop2(_, _, _, _, _, _)
BuildLoop2(st, info, ord, sym1, seq2, j) ==
    IF j > Len(seq2) THEN st
    ELSE LET sym2 == seq2[j]
             e1 == Get(info, sym1)
             e2 == Get(info, sym2)
             mid == Mid(e2.base, e2.quote, e1.quote)
             st2 == IF mid # "None" /\ mid # e1.base
                    THEN BuildLoop3(st, info, sym1, sym2, mid, ord[mid], 1)
                    ELSE st
         IN BuildLoop2(st2, info, ord, sym1, seq2, j + 1)

\* for sym1 in self.symbol_info, from position i on.
RECURSIVE BuildLoop1(_, _, _, _)
BuildLoop1(st, info, ord, i) ==
    IF i > Len(info) THEN st
    ELSE BuildLoop1(BuildLoop2(st, info, ord, info[i].symbol, ord[info[i].quote], 1),
                    info, ord, i + 1)

\* One order of iteration for each set of the asset index.
RECURSIVE SetOrders(_, _)
SetOrders(index, A) ==
    IF A = {} THEN {<<>>}
    ELSE LET a == CHOOSE x \in A : TRUE IN
         {(a :> o) @@ f : o \in Perms(index[a]), f \in SetOrders(index, A \ {a})}

\* The triangle list after one run on the list tri.
BuiltTriangles(tri, info, ord) ==
    BuildLoop1([triangles |-> tri, checked |-> {}], info, ord, 1).triangles

build_triangles ==
    /\ \E ord \in SetOrders(asset_to_symbols, Assets) :
          triangles' = BuiltTriangles(triangles, symbol_info, ord)
    /\ op' = "build_triangles"
    /\ exc' = "none"
    /\ builds' = builds + 1
    /\ UNCHANGED <<prices, symbol_info, asset_to_symbols, best_trade, history, log,
                   loads, ticks, scans>>

----------------------------------------------------------------------------
(* Floats.                                                                 *)

Abs(n) == IF n < 0 THEN -n ELSE n

RECURSIVE GCD(_, _)
GCD(a, b) == IF b = 0 THEN a ELSE GCD(b, a % b)

\* The float n/d, d # 0.
Rat(n, d) ==
    LET g == GCD(Abs(n), Abs(d))
        s == IF d < 0 THEN -1 ELSE 1
    IN [num |-> (s * n) \div g, den |-> (s * d) \div g]

Mul(x, y) == Rat(x.num * y.num, x.den * y.den)

Gt(x, y) == x.num * y.den > y.num * x.den

\* float(x) of a tick field as the stream sends it; ok is FALSE for ValueError.
Float(tok) ==
    CASE tok = "0" -> [ok |-> TRUE, val |-> 0]
      [] tok = "1" -> [ok |-> TRUE, val |-> 1]
      [] tok = "2" -> [ok |-> TRUE, val |-> 2]
      [] tok = "4" -> [ok |-> TRUE, val |-> 4]
      [] tok = "-1" -> [ok |-> TRUE, val |-> -1]
      [] OTHER -> [ok |-> FALSE, val |-> 0]

----------------------------------------------------------------------------
(* update_price                                                            *)

EmptyDict == [k \in {} |-> None]

\* Faulty variant of Assign: an existing entry is kept (first write wins).
Assign_KeepsFirst(d, k, v) ==
    [x \in DOMAIN d \cup {k} |-> IF x \in DOMAIN d THEN d[x] ELSE v]

\* d[k] = v
Assign(d, k, v) == [x \in DOMAIN d \cup {k} |-> IF x = k THEN v ELSE d[x]]

\* The symbols the ticker stream carries and the (bid, ask) fields of a tick.
StreamSymbols == {"BTCUSDT", "ETHBTC", "ETHUSDT", "BTCETH"}

TickValues ==
    {<<"2", "1">>, <<"1", "2">>, <<"1", "0">>, <<"-1", "1">>,
     <<"abc", "1">>, <<"1", "abc">>}

\* Faulty variant of update_price: the table is rebuilt with the one entry.
update_price_Resets(symbol, bid, ask) ==
    LET b == Float(bid)
        a == Float(ask)
    IN /\ IF b.ok /\ a.ok
          THEN /\ prices' = Assign(EmptyDict, symbol, [bid |-> b.val, ask |-> a.val])
               /\ exc' = "none"
          ELSE /\ prices' = prices
               /\ exc' = "ValueError"
       /\ op' = "update_price"
       /\ ticks' = ticks + 1
       /\ UNCHANGED <<symbol_info, asset_to_symbols, triangles, best_trade, history,
                      log, loads, builds, scans>>

update_price(symbol, bid, ask) ==
    LET b == Float(bid)
        a == Float(ask)
    IN /\ IF b.ok /\ a.ok
          THEN /\ prices' = Assign(prices, symbol, [bid |-> b.val, ask |-> a.val])
               /\ exc' = "none"
          ELSE /\ prices' = prices
               /\ exc' = "ValueError"
       /\ op' = "update_price"
       /\ ticks' = ticks + 1
       /\ UNCHANGED <<symbol_info, asset_to_symbols, triangles, best_trade, history,
                      log, loads, builds, scans>>

----------------------------------------------------------------------------
(* get_rate                                                                *)

\* The outcome of a call: the exception it raised, or the value it returned.
Raise(e) == [raised |-> e, value |-> None]

Return(v) == [raised |-> "none", value |-> v]

get_rate(symbol, from_asset, to_asset) ==
    IF symbol \notin DOMAIN prices THEN Return(None)
    ELSE IF symbol \notin Keys(symbol_info) THEN Raise("KeyError")
    ELSE LET bid == prices[symbol].bid
             ask == prices[symbol].ask
             base == Get(symbol_info, symbol).base
             quote == Get(symbol_info, symbol).quote
         IN IF from_asset = base /\ to_asset = quote
            THEN IF ask = 0 THEN Raise("ZeroDivisionError") ELSE Return(Rat(1, ask))
            ELSE IF from_asset = quote /\ to_asset = base
            THEN Return(Rat(bid, 1))
            ELSE Return(None)

----------------------------------------------------------------------------
(* find_arbitrage                                                          *)

\* Faulty variant of AllPriced: the partial-data skip is left out.
AllPriced_NoSkip(t) == TRUE

\* if not all(sym in self.prices for sym in (sym1, sym2, sym3)): continue
AllPriced(t) == \A i \in 1..3 : t[i] \in DOMAIN prices

\* Faulty variant of Summary: profit = amt * 100, the "- 1.0" is left out.
Summary_GrossProfit(t, rate1, rate2, rate3) ==
    LET amt == Mul(Rat(1, 1), Mul(Mul(rate1, rate2), rate3))
    IN [path |-> t, return |-> amt, profit |-> Rat(amt.num * 100, amt.den)]

\* The summary of a triangle whose three rates are numbers.
Summary(t, rate1, rate2, rate3) ==
    LET amt == Mul(Rat(1, 1), Mul(Mul(rate1, rate2), rate3))
    IN [path |-> t, return |-> amt,
        profit |-> Rat((amt.num - amt.den) * 100, amt.den)]

\* Faulty variant of Better: >= in place of >, so a tie replaces the best.
Better_NonStrict(summary, best) ==
    /\ Gt(summary.profit, Rat(0, 1))
    /\ (best = None \/ ~Gt(best.profit, summary.profit))

\* if profit > 0 and (not best or summary["profit"] > best["profit"])
Better(summary, best) ==
    /\ Gt(summary.profit, Rat(0, 1))
    /\ (best = None \/ Gt(summary.profit, best.profit))

\* The loop body for triangle t: the exception it raises, or the value of
\* best after it.
ScanStep(best, t) ==
    IF t[1] \notin Keys(symbol_info) THEN Raise("KeyError")
    ELSE IF ~AllPriced(t) THEN Return(best)
    ELSE LET start == Get(symbol_info, t[1]).base
             quote1 == Get(symbol_info, t[1]).quote
             rate1 == get_rate(t[1], start, quote1)
         IN IF rate1.raised # "none" THEN Raise(rate1.raised)
            ELSE IF t[2] \notin Keys(symbol_info) THEN Raise("KeyError")
            ELSE LET quote2 == IF Get(symbol_info, t[2]).base # quote1
                               THEN Get(symbol_info, t[2]).base
                               ELSE Get(symbol_info, t[2]).quote
                     rate2 == get_rate(t[2], quote1, quote2)
                 IN IF rate2.raised # "none" THEN Raise(rate2.raised)
                    ELSE LET rate3 == get_rate(t[3], quote2, start)
                         IN IF rate3.raised # "none" THEN Raise(rate3.raised)
                            ELSE IF None \in {rate1.value, rate2.value, rate3.value}
                            THEN Return(best)
                            ELSE LET summary == Summary(t, rate1.value, rate2.value,
                                                        rate3.value)
                                 IN IF Better(summary, best) THEN Return(summary)
                                    ELSE Return(best)

\* for sym1, sym2, sym3 in self.triangles, from position i on.
RECURSIVE ScanLoop(_, _, _)
ScanLoop(best, tri, i) ==
    IF i > Len(tri) THEN Return(best)
    ELSE LET r == ScanStep(best, tri[i])
         IN IF r.raised # "none" THEN r ELSE ScanLoop(r.value, tri, i + 1)

\* Faulty variant of appendleft: a deque created without maxlen.
appendleft_Unbounded(h, x) == <<x>> \o h

\* deque(maxlen=50).appendleft(x)
appendleft(h, x) ==
    IF Len(h) >= maxlen THEN <<x>> \o SubSeq(h, 1, maxlen - 1) ELSE <<x>> \o h

\* Faulty variant of find_arbitrage: a scan without a best clears best_trade.
find_arbitrage_Clears ==
    LET r == ScanLoop(None, triangles, 1)
    IN /\ op' = "find_arbitrage"
       /\ exc' = r.raised
       /\ IF r.raised = "none" /\ r.value # None
          THEN /\ best_trade' = r.value
               /\ history' = appendleft(history, r.value)
               /\ log' = <<r.value>> \o log
          ELSE best_trade' = None /\ UNCHANGED <<history, log>>
       /\ scans' = scans + 1
       /\ UNCHANGED <<prices, symbol_info, asset_to_symbols, triangles,
                      loads, builds, ticks>>

find_arbitrage ==
    LET r == ScanLoop(None, triangles, 1)
    IN /\ op' = "find_arbitrage"
       /\ exc' = r.raised
       /\ IF r.raised = "none" /\ r.value # None
          THEN /\ best_trade' = r.value
               /\ history' = appendleft(history, r.value)
               /\ log' = <<r.value>> \o log
          ELSE UNCHANGED <<best_trade, history, log>>
       /\ scans' = scans + 1
       /\ UNCHANGED <<prices, symbol_info, asset_to_symbols, triangles,
                      loads, builds, ticks>>

----------------------------------------------------------------------------
(* The engine after __init__.                                              *)

Init ==
    /\ prices = EmptyDict
    /\ symbol_info = <<>>
    /\ asset_to_symbols = [a \in Assets |-> {}]
    /\ triangles = <<>>
    /\ best_trade = None
    /\ history = <<>>
    /\ log = <<>>
    /\ op = "__init__"
    /\ exc = "none"
    /\ loads = 0
    /\ builds = 0
    /\ ticks = 0
    /\ scans = 0
    /\ pc = "start"
    /\ ws = "none"
    /\ tickers = <<>>
    /\ recvs = 0

----------------------------------------------------------------------------
(* The metadata index and the triangle builder alone: the metadata is       *)
(* fetched one or more times, then the triangles are built.                 *)

IndexFetch ==
    /\ loads < MaxLoads
    /\ builds = 0
    /\ \E feed \in Feeds : fetch_symbol_info(feed)
    /\ UNCHANGED loop

IndexBuild == builds = 0 /\ build_triangles /\ UNCHANGED loop

NextIndex == IndexFetch \/ IndexBuild

SpecIndex == Init /\ [][NextIndex]_vars

----------------------------------------------------------------------------
(* The triangle builder run repeatedly on one load of the metadata.         *)

RebuildFetch ==
    /\ loads = 0
    /\ \E feed \in Feeds : fetch_symbol_info(feed)
    /\ UNCHANGED loop

Rebuild == loads = 1 /\ builds < MaxBuilds /\ build_triangles /\ UNCHANGED loop

NextRebuild == RebuildFetch \/ Rebuild

SpecRebuild == Init /\ [][NextRebuild]_vars

----------------------------------------------------------------------------
(* A session as run_arbitrage drives the engine: the metadata is fetched    *)
(* once, the triangles are built once, then price ticks and scans follow.   *)

SessionFetch ==
    /\ loads = 0
    /\ \E feed \in SessionFeeds : fetch_symbol_info(feed)
    /\ UNCHANGED loop

SessionBuild == loads = 1 /\ builds = 0 /\ build_triangles /\ UNCHANGED loop

Tick ==
    /\ builds = 1
    /\ ticks < MaxTicks
    /\ \E symbol \in StreamSymbols, tk \in TickValues : update_price(symbol, tk[1], tk[2])
    /\ UNCHANGED loop

Scan == builds = 1 /\ scans < MaxScans /\ find_arbitrage /\ UNCHANGED loop

Next == SessionFetch \/ SessionBuild \/ Tick \/ Scan

Spec == Init /\ [][Next]_vars

----------------------------------------------------------------------------
(* The price table alone: update_price calls on a fresh engine.            *)

PriceTick ==
    /\ ticks < MaxTicks
    /\ \E symbol \in StreamSymbols, tk \in TickValues :
          update_price(symbol, tk[1], tk[2])
    /\ UNCHANGED loop

SpecPrices == Init /\ [][PriceTick]_vars

----------------------------------------------------------------------------
(* A long session on the test listing: few price ticks, enough scans to     *)
(* fill the history beyond its capacity.                                    *)

\* The ticks of the session: (symbol, bid, ask).  Only the bid of ETHUSDT
\* moves, which moves the return of the triangle.
HistTickValues ==
    {<<"BTCUSDT", "2", "1">>, <<"ETHBTC", "2", "1">>,
     <<"ETHUSDT", "2", "1">>, <<"ETHUSDT", "4", "1">>}

HistFetch == loads = 0 /\ fetch_symbol_info(FeedOf(TestListing)) /\ UNCHANGED loop

HistTick ==
    /\ builds = 1
    /\ ticks < HistTicks
    /\ \E tk \in HistTickValues : update_price(tk[1], tk[2], tk[3])
    /\ UNCHANGED loop

\* The run ends after HistIdle scans that committed nothing, or HistExtra
\* commits beyond the capacity of the history.
HistScan ==
    /\ builds = 1
    /\ Len(log) < maxlen + HistExtra
    /\ scans - Len(log) < HistIdle
    /\ find_arbitrage
    /\ UNCHANGED loop

NextHistory == HistFetch \/ SessionBuild \/ HistTick \/ HistScan

SpecHistory == Init /\ [][NextHistory]_vars

----------------------------------------------------------------------------
(* The fixture of test_find_arbitrage: symbol_info, prices and a one-triple *)
(* triangle list are assigned directly, then the engine is used.            *)

\* The price entries a valid tick leaves in the table.
PriceEntries ==
    {[bid |-> Float(tk[1]).val, ask |-> Float(tk[2]).val] :
        tk \in {x \in TickValues : Float(x[1]).ok /\ Float(x[2]).ok}}

InitFixture ==
    /\ symbol_info = [i \in 1..3 |->
                        [symbol |-> TestListing[i], base |-> Listing[TestListing[i]].base,
                         quote |-> Listing[TestListing[i]].quote]]
    /\ asset_to_symbols = [a \in Assets |-> {}]
    /\ prices \in [Range(TestListing) -> PriceEntries]
    /\ triangles \in {<<t>> : t \in Perms(Range(TestListing))}
    /\ best_trade = None
    /\ history = <<>>
    /\ log = <<>>
    /\ op = "__init__"
    /\ exc = "none"
    /\ loads = 0
    /\ builds = 0
    /\ ticks = 0
    /\ scans = 0
    /\ pc = "start"
    /\ ws = "none"
    /\ tickers = <<>>
    /\ recvs = 0

FixtureTick ==
    /\ ticks < FixtureTicks
    /\ \E symbol \in Range(TestListing), tk \in TickValues :
          update_price(symbol, tk[1], tk[2])
    /\ UNCHANGED loop

FixtureScan == scans < MaxScans /\ find_arbitrage /\ UNCHANGED loop

NextFixture == FixtureTick \/ FixtureScan

SpecFixture == InitFixture /\ [][NextFixture]_vars

----------------------------------------------------------------------------
(* run_arbitrage: fetch, build, connect, then the loop                      *)
(*   try: recv, json.loads, update_price per ticker, find_arbitrage,        *)
(*        render, sleep(3)                                                  *)
(*   except Exception: report, sleep(5).                                    *)
(* Rendering reads the engine and changes none of its state.                *)

\* The tickers (s, b, a) a message of the stream can carry.
StreamTicks ==
    {<<"BTCUSDT", "2", "1">>, <<"ETHUSDT", "2", "1">>, <<"ETHBTC", "1", "1">>,
     <<"ETHBTC", "1", "0">>, <<"ETHUSDT", "abc", "1">>, <<"BTCUSDT", "-1", "1">>}

\* json.loads(msg) of a well-formed message.
Batches == UNION {[1..k -> StreamTicks] : k \in 0..MaxBatch}

\* What ws.recv() and json.loads(msg) can raise.
RecvErrors == {"ConnectionClosed", "JSONDecodeError"}

\* Faulty variant of except_Exception: the exception leaves the loop.
except_Reraise(e) == "raised"

\* except Exception as e: the statement reached when e is raised in the try
\* body.  Every exception of the body derives from Exception.
except_Exception(e) == "sleep5"

\* await arb.fetch_symbol_info()
StreamFetch ==
    /\ pc = "start"
    /\ fetch_symbol_info(FeedOf(TestListing))
    /\ pc' = "fetched"
    /\ UNCHANGED <<ws, tickers, recvs>>

\* arb.build_triangles()
StreamBuild ==
    /\ pc = "fetched"
    /\ build_triangles
    /\ pc' = "built"
    /\ UNCHANGED <<ws, tickers, recvs>>

\* async with websockets.connect(BINANCE_WS_URL) as ws
Connect ==
    /\ pc = "built"
    /\ ws' = "open"
    /\ pc' = "recv"
    /\ UNCHANGED <<engine, tickers, recvs>>

\* msg = await ws.recv(); tickers = json.loads(msg), raising
RecvFails ==
    /\ pc = "recv"
    /\ recvs < MaxRecvs
    /\ recvs' = recvs + 1
    /\ \E e \in RecvErrors : exc' = e /\ pc' = except_Exception(e)
    /\ tickers' = <<>>
    /\ UNCHANGED <<prices, symbol_info, asset_to_symbols, triangles, best_trade,
                   history, log, op, loads, builds, ticks, scans, ws>>

\* msg = await ws.recv(); tickers = json.loads(msg)
Recv ==
    /\ pc = "recv"
    /\ recvs < MaxRecvs
    /\ recvs' = recvs + 1
    /\ \E batch \in Batches : tickers' = batch
    /\ exc' = "none"
    /\ pc' = "update"
    /\ UNCHANGED <<prices, symbol_info, asset_to_symbols, triangles, best_trade,
                   history, log, op, loads, builds, ticks, scans, ws>>

\* One round of: for ticker in tickers: arb.update_price(symbol, bid, ask)
Update ==
    /\ pc = "update"
    /\ tickers # <<>>
    /\ update_price(Head(tickers)[1], Head(tickers)[2], Head(tickers)[3])
    /\ IF exc' = "none"
       THEN pc' = "update" /\ tickers' = Tail(tickers)
       ELSE pc' = except_Exception(exc') /\ tickers' = <<>>
    /\ UNCHANGED <<ws, recvs>>

\* arb.find_arbitrage() and the rendering after it
StreamScan ==
    /\ pc = "update"
    /\ tickers = <<>>
    /\ find_arbitrage
    /\ pc' = IF exc' = "none" THEN "sleep3" ELSE except_Exception(exc')
    /\ UNCHANGED <<ws, tickers, recvs>>

\* await asyncio.sleep(3) / await asyncio.sleep(5), then while True
Sleep ==
    /\ pc \in {"sleep3", "sleep5"}
    /\ pc' = "recv"
    /\ UNCHANGED <<engine, ws, tickers, recvs>>

NextStream ==
    \/ StreamFetch \/ StreamBuild \/ Connect
    \/ RecvFails \/ Recv \/ Update \/ StreamScan \/ Sleep

\* asyncio.sleep returns: a sleeping loop goes on.
SpecStream == Init /\ [][NextStream]_vars /\ WF_vars(Sleep)

----------------------------------------------------------------------------
(* Vocabulary of the properties.                                           *)

Min(a, b) == IF a < b THEN a ELSE b

AssetsOf(info, sym) == {Get(info, sym).base, Get(info, sym).quote}

\* Every symbol of the index has a base different from its quote.
WellFormed(info) == \A i \in 1..Len(info) : info[i].base # info[i].quote

\* S is a set of three symbols forming a cycle over three assets: three
\* different asset pairs drawn from three assets.
IsCycle(info, S) ==
    /\ S \subseteq Keys(info)
    /\ Cardinality(S) = 3
    /\ \A n \in S : Cardinality(AssetsOf(info, n)) = 2
    /\ Cardinality(UNION {AssetsOf(info, n) : n \in S}) = 3
    /\ \A n, m \in S : n # m => AssetsOf(info, n) # AssetsOf(info, m)

Cycles(info) == {S \in SUBSET Keys(info) : IsCycle(info, S)}

\* The list tri holds exactly one triple for each cycle and nothing else.
OneTriplePerCycle(tri, info) ==
    /\ \A S \in Cycles(info) :
          Cardinality({i \in 1..Len(tri) : Range(tri[i]) = S}) = 1
    /\ \A i \in 1..Len(tri) : Range(tri[i]) \in Cycles(info)

\* The asset of sym that is not a.
Other(info, sym, a) == CHOOSE x \in AssetsOf(info, sym) : x # a

\* t has three different symbols over three assets, and walking t[1] from
\* its base to its quote, then t[2], then t[3] ends at the base of t[1].
ClosedWalk(info, t) ==
    /\ t[1] # t[2] /\ t[2] # t[3] /\ t[1] # t[3]
    /\ Cardinality(UNION {AssetsOf(info, t[i]) : i \in 1..3}) = 3
    /\ Get(info, t[1]).quote \in AssetsOf(info, t[2])
    /\ Other(info, t[2], Get(info, t[1]).quote) \in AssetsOf(info, t[3])
    /\ Other(info, t[3], Other(info, t[2], Get(info, t[1]).quote)) = Get(info, t[1]).base

\* The symbols a metadata response lists as tradeable, and those among them
\* that have asset a as base or quote.
Tradeable(feed) == {feed[i].symbol : i \in {j \in 1..Len(feed) : feed[j].status = "TRADING"}}

TradeableOn(feed, a) ==
    {feed[i].symbol : i \in {j \in 1..Len(feed) :
        /\ feed[j].status = "TRADING"
        /\ a \in {feed[j].baseAsset, feed[j].quoteAsset}}}

\* A tick field that is not numeric or is negative.
InvalidField(tok) == ~Float(tok).ok \/ Float(tok).val < 0

\* No entry of the price table is negative.
NonNegativeTable ==
    \A n \in DOMAIN prices : prices[n].bid >= 0 /\ prices[n].ask >= 0

\* Some symbol of t has no entry in the price table.
Unpriced(t) == \E i \in 1..3 : t[i] \notin DOMAIN prices

Priced(t) == ~Unpriced(t)

\* The summary of triangle t when the scan evaluates it, None when it skips it
\* (read only where the scan raises nothing).
Candidate(t) ==
    IF Unpriced(t) THEN None
    ELSE LET start == Get(symbol_info, t[1]).base
             quote1 == Get(symbol_info, t[1]).quote
             quote2 == IF Get(symbol_info, t[2]).base # quote1
                       THEN Get(symbol_info, t[2]).base
                       ELSE Get(symbol_info, t[2]).quote
             rate1 == get_rate(t[1], start, quote1).value
             rate2 == get_rate(t[2], quote1, quote2).value
             rate3 == get_rate(t[3], quote2, start).value
         IN IF None \in {rate1, rate2, rate3} THEN None
            ELSE Summary(t, rate1, rate2, rate3)

\* The positions of the triangle list whose triangle is evaluated with a
\* profit > 0.
Profitable ==
    {i \in 1..Len(triangles) :
        /\ Candidate(triangles[i]) # None
        /\ Gt(Candidate(triangles[i]).profit, Rat(0, 1))}

\* The first position among those of the highest profit.
FirstHighest ==
    CHOOSE i \in Profitable :
        /\ \A j \in Profitable :
              ~Gt(Candidate(triangles[j]).profit, Candidate(triangles[i]).profit)
        /\ \A j \in Profitable :
              j < i => Gt(Candidate(triangles[i]).profit, Candidate(triangles[j]).profit)

\* The return of the cycle BTC -> USDT -> ETH -> BTC over the test symbols
\* is above 1 (as it is for the prices of test_find_arbitrage).
FixtureProfitable ==
    /\ \A n \in Range(TestListing) : n \in DOMAIN prices /\ prices[n].ask # 0
    /\ Gt(Mul(Mul(get_rate("BTCUSDT", "BTC", "USDT").value,
                  get_rate("ETHUSDT", "USDT", "ETH").value),
              get_rate("ETHBTC", "ETH", "BTC").value),
          Rat(1, 1))

----------------------------------------------------------------------------
(* The properties.                                                         *)

\* C1: the history never holds more than maxlen (50) entries, and it holds
\* the most recent best trades, newest first: all of them while there are at
\* most 50, exactly the 50 most recent once there are more.
C1_HistoryIsRecentBest ==
    /\ Len(history) <= maxlen
    /\ history = SubSeq(log, 1, Min(Len(log), maxlen))

\* C1 witness: more than 50 scans have committed a best trade, the history is
\* full, and its newest and oldest entries differ.
C1_Overflowed ==
    /\ op = "find_arbitrage"
    /\ Len(log) > maxlen
    /\ Len(history) = maxlen
    /\ history[1] # history[maxlen]

\* C2 as claimed: an update_price call with a bid or an ask that is negative or
\* not numeric raises and leaves the entry of the symbol as it was.
C2_InvalidTickRejected ==
    [][\A symbol \in StreamSymbols, tk \in TickValues :
          ((InvalidField(tk[1]) \/ InvalidField(tk[2]))
              /\ update_price(symbol, tk[1], tk[2]))
          => /\ exc' # "none"
             /\ (symbol \in DOMAIN prices') = (symbol \in DOMAIN prices)
             /\ symbol \in DOMAIN prices => prices'[symbol] = prices[symbol]]_vars

\* C3 as claimed: with the triangle list of test_find_arbitrage and the three
\* symbols priced (no price negative) so that the cycle is profitable,
\* find_arbitrage leaves best_trade set to a summary with profit > 0.
C3_FixtureFindsTrade ==
    [][(/\ scans' = scans + 1
        /\ triangles = <<TestListing>>
        /\ NonNegativeTable
        /\ FixtureProfitable)
          => (best_trade' # None /\ Gt(best_trade'.profit, Rat(0, 1)))]_vars

\* C4 as claimed: for any loaded symbols, a run of build_triangles from an
\* empty list stores exactly one triple per 3-symbol cycle and no other.
C4_OneTriplePerCycle ==
    [][(builds' = builds + 1 /\ triangles = <<>>)
          => OneTriplePerCycle(triangles', symbol_info)]_vars

\* C4 amended: the same for loaded symbols that all have base # quote; for the
\* three test symbols the result is one triangle over exactly those symbols.
C4_OneTriplePerCycleWellFormed ==
    [][(builds' = builds + 1 /\ triangles = <<>> /\ WellFormed(symbol_info))
          => /\ OneTriplePerCycle(triangles', symbol_info)
             /\ Keys(symbol_info) = Range(TestListing)
                   => /\ Len(triangles') = 1
                      /\ Range(triangles'[1]) = Range(TestListing)]_vars

\* C4 witness: a well-formed index with two cycles has been built into two
\* triples.
C4_TwoCyclesBuilt ==
    /\ op = "build_triangles"
    /\ WellFormed(symbol_info)
    /\ Cardinality(Cycles(symbol_info)) = 2
    /\ Len(triangles) = 2

\* C5: when every symbol has base # quote, every stored triple has three
\* different symbols over exactly three assets and walks back to the base of
\* its first symbol.
C5_StoredTriplesClose ==
    WellFormed(symbol_info)
        => \A i \in 1..Len(triangles) : ClosedWalk(symbol_info, triangles[i])

\* C5 witness: triples have been stored from a well-formed index.
C5_TriplesStored ==
    /\ op = "build_triangles"
    /\ WellFormed(symbol_info)
    /\ Len(triangles) >= 1

\* C6 as claimed: on a price table without negative entries (zero included)
\* find_arbitrage raises nothing.
C6_ScanNeverRaises ==
    [][(scans' = scans + 1 /\ NonNegativeTable) => exc' = "none"]_vars

\* C7 as claimed: for any symbol and pair of assets get_rate returns None when
\* the symbol has no price or the pair is neither (base, quote) nor
\* (quote, base) of the symbol, 1/ask for (base, quote), bid for (quote, base).
C7_RateContract ==
    \A symbol \in StreamSymbols, from_asset \in Assets, to_asset \in Assets :
        LET r == get_rate(symbol, from_asset, to_asset)
            listed == symbol \in Keys(symbol_info)
            buy == listed /\ from_asset = Get(symbol_info, symbol).base
                          /\ to_asset = Get(symbol_info, symbol).quote
            sell == listed /\ from_asset = Get(symbol_info, symbol).quote
                           /\ to_asset = Get(symbol_info, symbol).base
        IN /\ r.raised = "none"
           /\ symbol \notin DOMAIN prices => r.value = None
           /\ (symbol \in DOMAIN prices /\ ~buy /\ ~sell) => r.value = None
           /\ (symbol \in DOMAIN prices /\ buy)
                 => r.value = Rat(1, prices[symbol].ask)
           /\ (symbol \in DOMAIN prices /\ ~buy /\ sell)
                 => r.value = Rat(prices[symbol].bid, 1)

\* C8: a triangle with a symbol that has no price contributes nothing to a
\* scan: the loop body leaves best as it is and raises nothing whatever the
\* other two prices are, the committed best trade is never such a triangle,
\* and the scan ends as the scan of the list without these triangles would.
C8_UnpricedContributesNothing ==
    [][scans' = scans + 1
          => /\ \A i \in 1..Len(triangles) :
                   Unpriced(triangles[i])
                       => \A b \in {None, best_trade} :
                             ScanStep(b, triangles[i]) = Return(b)
             /\ log' # log => Priced(best_trade'.path)
             /\ LET r == ScanLoop(None, SelectSeq(triangles, Priced), 1)
                IN /\ exc' = r.raised
                   /\ IF r.raised = "none" /\ r.value # None
                      THEN /\ best_trade' = r.value
                           /\ history' = appendleft(history, r.value)
                      ELSE UNCHANGED <<best_trade, history>>]_vars

\* C8 witness: a scan has ended without an exception on a list holding a
\* triangle whose first symbol is priced with ask 0 and another symbol of
\* which has no price.
C8_UnpricedSkipped ==
    /\ op = "find_arbitrage"
    /\ exc = "none"
    /\ \E i \in 1..Len(triangles) :
          /\ Unpriced(triangles[i])
          /\ triangles[i][1] \in DOMAIN prices
          /\ prices[triangles[i][1]].ask = 0

\* C9: a scan that raises nothing commits the first triangle among those of
\* the highest profit > 0, and commits nothing when no triangle has a
\* profit > 0.
C9_FirstHighestIsBest ==
    [][(scans' = scans + 1 /\ exc' = "none")
          => IF Profitable = {}
             THEN UNCHANGED <<best_trade, history, log>>
             ELSE /\ best_trade' = Candidate(triangles[FirstHighest])
                  /\ log' = <<best_trade'>> \o log]_vars

\* C9 witness: a scan has ended on two triangles of equal profit > 0 and the
\* best trade is the first of them.
C9_TieKeepsFirst ==
    /\ op = "find_arbitrage"
    /\ exc = "none"
    /\ Len(triangles) = 2
    /\ Profitable = {1, 2}
    /\ Candidate(triangles[1]).profit = Candidate(triangles[2]).profit
    /\ best_trade # None
    /\ best_trade.path = triangles[1]

\* C10 as claimed: a load that is not the first leaves symbol_info and
\* asset_to_symbols holding exactly the tradeable symbols of its response.
C10_LoadReplacesIndex ==
    [][\A feed \in Feeds :
          (loads >= 1 /\ fetch_symbol_info(feed))
          => /\ Keys(symbol_info') = Tradeable(feed)
             /\ \A a \in Assets : asset_to_symbols'[a] = TradeableOn(feed, a)]_vars

\* C11: a load into an empty index leaves in symbol_info exactly the symbols
\* whose metadata entry has the tradeable status, and a symbol s is in
\* asset_to_symbols[a] exactly when s is in symbol_info and a is the base or
\* the quote of s.
C11_FirstLoadIndexesTradeable ==
    [][\A feed \in Feeds :
          (loads = 0 /\ fetch_symbol_info(feed))
          => /\ \A i \in 1..Len(feed) :
                   (feed[i].symbol \in Keys(symbol_info'))
                       = (feed[i].status = "TRADING")
             /\ \A n \in Keys(symbol_info') : n \in Names
             /\ \A a \in Assets, n \in Names :
                   (n \in asset_to_symbols'[a])
                       = (n \in Keys(symbol_info') /\ a \in AssetsOf(symbol_info', n))]_vars

\* C11 witness: one load has indexed three symbols and left the venue's
\* non-tradeable symbols out.
C11_LoadedAndFiltered ==
    /\ op = "fetch_symbol_info"
    /\ loads = 1
    /\ Cardinality(Keys(symbol_info)) = 3
    /\ Keys(symbol_info) # Names
    /\ Cardinality(asset_to_symbols["BTC"]) >= 2

\* The entry update_price stores for the fields of tick tk.
EntryOf(tk) == [bid |-> Float(tk[1]).val, ask |-> Float(tk[2]).val]

\* Both fields of tick tk are numeric and not negative.
ValidTick(tk) == ~InvalidField(tk[1]) /\ ~InvalidField(tk[2])

\* C12: a valid update_price call leaves the entry of its symbol equal to its
\* bid and ask whatever the entry was (last write wins) and raises nothing;
\* called on a table that already holds this entry, as after the same call,
\* it leaves the table equal to what it was (idempotence).
C12_LastWriteWins ==
    [][\A symbol \in StreamSymbols, tk \in TickValues :
          (ValidTick(tk) /\ update_price(symbol, tk[1], tk[2]))
          => /\ exc' = "none"
             /\ symbol \in DOMAIN prices'
             /\ prices'[symbol] = EntryOf(tk)
             /\ (symbol \in DOMAIN prices /\ prices[symbol] = EntryOf(tk))
                   => prices' = prices
             /\ Assign(prices', symbol, EntryOf(tk)) = prices']_vars

\* C12 witness: two updates have been made and the table holds one entry,
\* that of the later one.
C12_Overwritten ==
    /\ op = "update_price"
    /\ exc = "none"
    /\ ticks = 2
    /\ scans = 0
    /\ DOMAIN prices = {"BTCUSDT"}
    /\ prices["BTCUSDT"] = [bid |-> 1, ask |-> 2]

\* C13 as claimed, for the invalid fields that are not numeric: in the
\* streaming loop a ticker with such a bid or ask is dropped alone: the price
\* table is left as it is and the loop goes on with the rest of the batch
\* (and so to the scan of the batch).
C13_InvalidTickDroppedAlone ==
    [][(/\ pc = "update"
        /\ tickers # <<>>
        /\ (~Float(Head(tickers)[2]).ok \/ ~Float(Head(tickers)[3]).ok))
          => /\ prices' = prices
             /\ pc' = "update"
             /\ tickers' = Tail(tickers)]_vars

\* The asset the scan derives as quote2 for triangle t.
ScanQuote2(t) ==
    IF Get(symbol_info, t[2]).base # Get(symbol_info, t[1]).quote
    THEN Get(symbol_info, t[2]).base
    ELSE Get(symbol_info, t[2]).quote

\* Every symbol of t has a price with a non-zero ask.
NonZeroAsks(t) == \A i \in 1..3 : t[i] \in DOMAIN prices /\ prices[t[i]].ask # 0

\* C14: for every triple build_triangles stored, once its three symbols have a
\* price with a non-zero ask the scan's three get_rate calls return numbers,
\* the asset the scan derives as quote2 being the builder's middle asset.
C14_BuiltTriplesEvaluable ==
    \A i \in 1..Len(triangles) :
        LET t == triangles[i]
            start == Get(symbol_info, t[1]).base
            quote1 == Get(symbol_info, t[1]).quote
            rate1 == get_rate(t[1], start, quote1)
            rate2 == get_rate(t[2], quote1, ScanQuote2(t))
            rate3 == get_rate(t[3], ScanQuote2(t), start)
        IN /\ ScanQuote2(t) = Mid(Get(symbol_info, t[2]).base,
                                  Get(symbol_info, t[2]).quote, quote1)
           /\ NonZeroAsks(t)
                 => /\ \A r \in {rate1, rate2, rate3} :
                          r.raised = "none" /\ r.value # None
                    /\ Candidate(t) # None

\* C14 witness: a scan has evaluated two built triangles, all of whose symbols
\* have a price with a non-zero ask.
C14_BuiltAndEvaluated ==
    /\ op = "find_arbitrage"
    /\ exc = "none"
    /\ Len(triangles) = 2
    /\ \A i \in 1..2 : NonZeroAsks(triangles[i])

\* C15: best_trade is None exactly when the history is empty; otherwise it is
\* the first (newest) entry of the history; every entry of the history has
\* profit > 0 and return > 1.
C15_BestTradeHeadsHistory ==
    /\ (best_trade = None) = (history = <<>>)
    /\ history # <<>> => best_trade = history[1]
    /\ \A i \in 1..Len(history) :
          /\ Gt(history[i].profit, Rat(0, 1))
          /\ Gt(history[i].return, Rat(1, 1))

\* C15 witness: two scans have committed different best trades.
C15_TwoCommitted ==
    /\ op = "find_arbitrage"
    /\ Len(history) = 2
    /\ history[1] # history[2]
    /\ best_trade = history[1]

\* C16: a find_arbitrage call in which no triangle has profit > 0 leaves
\* best_trade and the history as they were, and no call of any method makes
\* best_trade None once it is set.
C16_StaleBestKept ==
    [][/\ (scans' = scans + 1 /\ Profitable = {})
             => UNCHANGED <<best_trade, history>>
       /\ best_trade # None => best_trade' # None]_vars

\* C16 witness: the second scan found no triangle with profit > 0 and the
\* best trade of the first scan is still there.
C16_StaleAfterIdleScan ==
    /\ op = "find_arbitrage"
    /\ exc = "none"
    /\ scans = 2
    /\ Profitable = {}
    /\ Len(history) = 1
    /\ best_trade = history[1]

\* C17: in the loop, a find_arbitrage call (with the get_rate calls it makes)
\* leaves the price table, symbol_info, asset_to_symbols and the triangle list
\* unchanged, and an update_price call leaves unchanged every price entry but
\* that of its symbol, the metadata, the triangle list, best_trade and the
\* history.
C17_SteadyStateFrame ==
    [][/\ scans' = scans + 1
             => UNCHANGED <<prices, symbol_info, asset_to_symbols, triangles>>
       /\ (pc = "update" /\ tickers # <<>>)
             => /\ ticks' = ticks + 1
                /\ UNCHANGED <<symbol_info, asset_to_symbols, triangles,
                               best_trade, history>>
                /\ DOMAIN prices \subseteq DOMAIN prices'
                /\ DOMAIN prices' \subseteq DOMAIN prices \cup {Head(tickers)[1]}
                /\ \A n \in DOMAIN prices \ {Head(tickers)[1]} :
                      prices'[n] = prices[n]]_vars

\* C17 witness: update_price has just priced a symbol on an engine that holds
\* other price entries, triangles and a best trade.
C17_UpdateBesideOthers ==
    /\ op = "update_price"
    /\ exc = "none"
    /\ pc = "update"
    /\ Cardinality(DOMAIN prices) = 3
    /\ Len(triangles) = 1
    /\ best_trade # None

\* C18: in the streaming loop every step of the try body that raises goes to
\* the handler's delay with the stream handle, the triangle list, best_trade
\* and the history as they were; the steps of an iteration before its scan
\* change none of the three either; and the delay is always followed by the
\* loop standing at ws.recv() again on the same open handle.
C18_ErrorsCaughtLoopGoesOn ==
    /\ [][/\ (pc \in {"recv", "update"} /\ exc' # "none")
                => /\ pc' = "sleep5"
                   /\ ws' = ws
                   /\ UNCHANGED <<triangles, best_trade, history>>
          /\ (pc \in {"recv", "update"} /\ pc' \notin {"update", "sleep3"})
                => (pc' = "sleep5" /\ exc' # "none")
          /\ (pc \in {"recv", "update"} /\ scans' = scans)
                => UNCHANGED <<triangles, best_trade, history>>
          /\ pc \in {"recv", "update", "sleep3", "sleep5"}
                => (ws = "open" /\ ws' = ws)]_vars
    /\ ((pc = "sleep5") ~> (pc = "recv" /\ ws = "open"))

\* C18 witness: the third iteration failed after the second had committed a
\* best trade, and the loop stands at ws.recv() again.
C18_FailedThenBackAtRecv ==
    /\ pc = "recv"
    /\ ws = "open"
    /\ exc # "none"
    /\ recvs = 3
    /\ best_trade # None
    /\ history = <<best_trade>>

\* C19 as claimed: a build_triangles run on an index that was built before and
\* has not changed leaves the same set of triangles and the same number of
\* them, the list holding at most one triple per set of three symbols.
C19_RebuildChangesNothing ==
    [][(builds >= 1 /\ builds' = builds + 1)
          => /\ Range(triangles') = Range(triangles)
             /\ Len(triangles') = Len(triangles)
             /\ \A i, j \in 1..Len(triangles') :
                   Range(triangles'[i]) = Range(triangles'[j]) => i = j]_vars

====
